---- MODULE Spec2Model ----
(***************************************************************************)
(* Task edit dialog (TaskEditDialog.tsx) and the team / reminder API       *)
(* (lib/api.ts) of the Receipts-Workflow task manager.                     *)
(*                                                                         *)
(* The module holds one state machine per unit of the program:             *)
(*   SpecDates     formatDateForSupabase / parseDateFromSupabase           *)
(*   SpecSubmit    TaskEditDialog.handleSubmit                             *)
(*   SpecDialog    TaskEditDialog's useEffect + fetchUserTeams             *)
(*   SpecLookup    getTeams / getTeamMembers                               *)
(*   SpecCreate    createTeam                                              *)
(*   SpecReminder  scheduleTaskReminder                                    *)
(* Every `await` of the source is a suspension point: the statement before *)
(* it and the statement after it are separate actions.                     *)
(***************************************************************************)
EXTENDS Integers, Sequences, FiniteSets, TLC

VARIABLES
  \* ---- formatDateForSupabase / parseDateFromSupabase
  tz,            \* local timezone offset of the runtime, hours east of UTC
  date,          \* the Date handed to formatDateForSupabase (an instant)
  dateString,    \* value returned by formatDateForSupabase / read from storage
  parsedDate,    \* value returned by parseDateFromSupabase
  datePc,        \* "start" | "formatted" | "parsed"
  \* ---- TaskEditDialog: props, handleSubmit
  teamMembers,   \* prop: the candidate members, a list of {id, name}
  task,          \* prop: the task being edited, or null
  open,          \* prop: whether the dialog is open
  formData,      \* the raw form values last handed to handleSubmit
  submitted,     \* the payload last handed to onSubmit
  \* ---- scheduleTaskReminder
  reminderTask,  \* argument of the current call
  reminderPc,    \* "idle" | "awaiting" (line 156) | "resolved" | "rejected"
  invoked,       \* supabase.functions.invoke calls made by the current call
  invokeReply,   \* the {error} the invocation reported, undefined before
  reminderThrown, \* the error the call rejected with, undefined if none
  reminderCalls, \* calls made so far
  \* ---- the backend store (supabase tables)
  dbTeams,       \* table `teams`, rows in insertion order
  dbTeamMembers, \* table `team_members`
  dbProfiles,    \* table `profiles`
  \* ---- getTeams / getTeamMembers: the frame of the current call
  getTeamsCall,
  getTeamMembersCall,
  \* ---- createTeam: the frames of the calls made, in call order
  createTeamCalls,
  \* ---- TaskEditDialog: useEffect + fetchUserTeams
  user,          \* useAuth().user: null or {id}
  teams,         \* useState: the team options offered to the form
  fetchRuns      \* the frames of the fetchUserTeams runs, in start order

dateVars == <<date, dateString, parsedDate, datePc>>
submitVars == <<teamMembers, task, open, formData, submitted>>
reminderVars ==
  <<reminderTask, reminderPc, invoked, invokeReply, reminderThrown,
    reminderCalls>>

storeVars == <<dbTeams, dbTeamMembers, dbProfiles>>
lookupVars == <<getTeamsCall, getTeamMembersCall>>

dialogVars == <<user, teams, fetchRuns>>

vars ==
  <<tz, dateVars, submitVars, reminderVars, storeVars, lookupVars,
    createTeamCalls, dialogVars>>

\* what the actions of one unit leave alone: the state of the other units
notDateVars ==
  <<submitVars, reminderVars, storeVars, lookupVars, createTeamCalls,
    dialogVars>>
notSubmitVars ==
  <<tz, dateVars, reminderVars, storeVars, lookupVars, createTeamCalls,
    dialogVars>>
notReminderVars ==
  <<dateVars, submitVars, storeVars, lookupVars, createTeamCalls, dialogVars>>
notLookupVars ==
  <<tz, dateVars, submitVars, reminderVars, storeVars, createTeamCalls,
    dialogVars>>
notCreateVars ==
  <<tz, dateVars, submitVars, reminderVars, lookupVars, dialogVars>>
notDialogVars ==
  <<tz, dateVars, teamMembers, task, formData, submitted, reminderVars,
    storeVars, lookupVars, createTeamCalls>>

(***************************************************************************)
(* JavaScript values.  null and undefined are tagged records so that they  *)
(* are distinct from every string, number, array and object of the model.  *)
(***************************************************************************)
Null == [t |-> "null"]
Undefined == [t |-> "undefined"]
\* a string value; its characters are a sequence of one-character strings
Str(s) == [t |-> "string", v |-> s]
Bool(b) == [t |-> "boolean", v |-> b]
DateVal(i) == [t |-> "date", v |-> i]

\* Strings whose characters matter are sequences of one-character strings.
Digits == <<"0", "1", "2", "3", "4", "5", "6", "7", "8", "9">>

RECURSIVE Pad(_, _)
\* n as w decimal digits, zero padded (date-fns addLeadingZeros)
Pad(n, w) ==
  IF w = 0 THEN <<>> ELSE Append(Pad(n \div 10, w - 1), Digits[(n % 10) + 1])

DigitValue(c) == CHOOSE k \in 0..9 : Digits[k + 1] = c

RECURSIVE ToNumber(_)
\* decimal value of a sequence of digit characters
ToNumber(s) ==
  IF s = <<>> THEN 0
  ELSE 10 * ToNumber(SubSeq(s, 1, Len(s) - 1)) + DigitValue(s[Len(s)])

(***************************************************************************)
(* The proleptic Gregorian calendar of ECMAScript Date: day numbers count  *)
(* from 1970-01-01, instants are hours since 1970-01-01T00:00Z.            *)
(***************************************************************************)
HoursPerDay == 24

DaysFromCivil(y, m, d) ==
  LET yy  == IF m <= 2 THEN y - 1 ELSE y
      era == yy \div 400
      yoe == yy - era * 400
      mp  == IF m > 2 THEN m - 3 ELSE m + 9
      doy == (153 * mp + 2) \div 5 + d - 1
      doe == yoe * 365 + yoe \div 4 - yoe \div 100 + doy
  IN era * 146097 + doe - 719468

CivilFromDays(z0) ==
  LET z   == z0 + 719468
      era == z \div 146097
      doe == z - era * 146097
      yoe == (doe - doe \div 1460 + doe \div 36524 - doe \div 146096) \div 365
      doy == doe - (365 * yoe + yoe \div 4 - yoe \div 100)
      mp  == (5 * doy + 2) \div 153
      d   == doy - (153 * mp + 2) \div 5 + 1
      m   == IF mp < 10 THEN mp + 3 ELSE mp - 9
      y   == yoe + era * 400 + (IF m <= 2 THEN 1 ELSE 0)
  IN [year |-> y, month |-> m, day |-> d]

IsLeap(y) == (y % 4 = 0 /\ y % 100 # 0) \/ y % 400 = 0

DaysInMonth(y, m) ==
  IF m = 2 THEN (IF IsLeap(y) THEN 29 ELSE 28)
  ELSE IF m \in {4, 6, 9, 11} THEN 30 ELSE 31

\* getFullYear / getMonth+1 / getDate of the Date `i` in the local timezone
LocalYMD(i, offset) == CivilFromDays((i + offset) \div HoursPerDay)

\* the instant whose local wall clock reads y-m-d h:00 (new Date(y, m-1, d, h))
LocalInstant(y, m, d, h, offset) ==
  DaysFromCivil(y, m, d) * HoursPerDay + h - offset

\* date-fns format(d, 'yyyy-MM-dd'): the local calendar fields of d
FormatYMD(i, offset) ==
  LET c == LocalYMD(i, offset)
  IN Pad(c.year, 4) \o <<"-">> \o Pad(c.month, 2) \o <<"-">> \o Pad(c.day, 2)

\* new Date("yyyy-MM-dd"): an ISO date-only string is midnight UTC of that
\* day, whatever the local timezone (ECMA-262 Date.parse)
NewDateFromIso(s) ==
  DaysFromCivil(ToNumber(SubSeq(s, 1, 4)), ToNumber(SubSeq(s, 6, 7)),
                ToNumber(SubSeq(s, 9, 10))) * HoursPerDay

formatDateForSupabase(d, offset) == Str(FormatYMD(d.v, offset))

\* truthiness of the string-or-null argument: null and "" are falsy
parseDateFromSupabase(s) ==
  IF s.t = "string" /\ s.v # <<>> THEN DateVal(NewDateFromIso(s.v)) ELSE Null

(***************************************************************************)
(* SpecDates: a date is formatted for storage and read back.               *)
(***************************************************************************)
MinYear == 2023
MaxYear == 2024
TzOffsets == -12..14
LocalHours == {0, 9, 23}

ValidDates ==
  {c \in [year : MinYear..MaxYear, month : 1..12, day : 1..31] :
     c.day <= DaysInMonth(c.year, c.month)}

DatesIdle ==
  /\ date = Null
  /\ dateString = Undefined
  /\ parsedDate = Undefined
  /\ datePc = "idle"

SubmitIdle ==
  /\ teamMembers = <<>>
  /\ task = Null
  /\ open = FALSE
  /\ formData = Undefined
  /\ submitted = Undefined

ReminderIdle ==
  /\ reminderTask = Undefined
  /\ reminderPc = "idle"
  /\ invoked = <<>>
  /\ invokeReply = Undefined
  /\ reminderThrown = Undefined
  /\ reminderCalls = 0

StoreEmpty ==
  /\ dbTeams = <<>>
  /\ dbTeamMembers = <<>>
  /\ dbProfiles = <<>>

IdleCall == [pc |-> "idle"]

LookupIdle ==
  /\ getTeamsCall = IdleCall
  /\ getTeamMembersCall = IdleCall

CreateIdle == createTeamCalls = <<>>

DialogIdle ==
  /\ user = Null
  /\ teams = <<>>
  /\ fetchRuns = <<>>

DatesInit ==
  /\ SubmitIdle
  /\ ReminderIdle
  /\ StoreEmpty
  /\ LookupIdle
  /\ CreateIdle
  /\ DialogIdle
  /\ tz \in TzOffsets
  /\ \E c \in ValidDates, h \in LocalHours :
       date = DateVal(LocalInstant(c.year, c.month, c.day, h, tz))
  /\ dateString = Undefined
  /\ parsedDate = Undefined
  /\ datePc = "start"

FormatDate ==
  /\ datePc = "start"
  /\ dateString' = formatDateForSupabase(date, tz)
  /\ datePc' = "formatted"
  /\ UNCHANGED <<tz, date, parsedDate>>
  /\ UNCHANGED notDateVars

\* a task without due date is stored as null
StoreNoDate ==
  /\ datePc = "start"
  /\ dateString' = Null
  /\ datePc' = "formatted"
  /\ UNCHANGED <<tz, date, parsedDate>>
  /\ UNCHANGED notDateVars

ParseDate ==
  /\ datePc = "formatted"
  /\ parsedDate' = parseDateFromSupabase(dateString)
  /\ datePc' = "parsed"
  /\ UNCHANGED <<tz, date, dateString>>
  /\ UNCHANGED notDateVars

DatesNext == FormatDate \/ StoreNoDate \/ ParseDate

SpecDates == DatesInit /\ [][DatesNext]_vars

\* C9 (as claimed): for every valid calendar date d and every local timezone offset,
\* parseDateFromSupabase(formatDateForSupabase(d)) has the year, month and day
\* of d, and parseDateFromSupabase(null) is null.
RoundTripKeepsDate ==
  datePc = "parsed" =>
    IF dateString = Null THEN parsedDate = Null
    ELSE /\ parsedDate.t = "date"
         /\ LocalYMD(parsedDate.v, tz) = LocalYMD(date.v, tz)

\* what the code does keep: the round trip is exact east of (or at) UTC
RoundTripEastOfUtc ==
  (datePc = "parsed" /\ dateString # Null /\ tz >= 0) =>
    LocalYMD(parsedDate.v, tz) = LocalYMD(date.v, tz)

(***************************************************************************)
(* TaskEditDialog.handleSubmit                                             *)
(***************************************************************************)
Num(n) == [t |-> "number", v |-> n]
NaN == [t |-> "NaN"]

Min(a, b) == IF a <= b THEN a ELSE b

\* String.prototype.trim strips these (white space and line terminators)
IsWhiteSpace(c) == c \in {" ", "\t", "\n"}

RECURSIVE TrimStart(_)
TrimStart(s) ==
  IF s # <<>> /\ IsWhiteSpace(Head(s)) THEN TrimStart(Tail(s)) ELSE s

RECURSIVE TrimEnd(_)
TrimEnd(s) ==
  IF s # <<>> /\ IsWhiteSpace(s[Len(s)])
  THEN TrimEnd(SubSeq(s, 1, Len(s) - 1)) ELSE s

\* String.prototype.trim
Trim(s) == TrimEnd(TrimStart(s))

RECURSIVE Split(_, _)
\* String.prototype.split(sep) for a one-character separator: every piece
\* between separators is kept, the empty ones too; "" splits into [""]
Split(s, sep) ==
  IF \A k \in 1..Len(s) : s[k] # sep THEN <<s>>
  ELSE LET k == CHOOSE i \in 1..Len(s) :
                  s[i] = sep /\ \A j \in 1..(i - 1) : s[j] # sep
       IN <<SubSeq(s, 1, k - 1)>> \o Split(SubSeq(s, k + 1, Len(s)), sep)

\* Array.prototype.map(tag => tag.trim())
MapTrim(pieces) == [k \in 1..Len(pieces) |-> Trim(pieces[k])]

\* truthiness of a tagged JavaScript value
Truthy(x) ==
  CASE x.t = "string" -> x.v # <<>>
    [] x.t = "boolean" -> x.v
    [] x.t \in {"date", "object", "array"} -> TRUE
    [] OTHER -> FALSE

\* line 75: data.tags ? data.tags.split(',').map(tag => tag.trim()) : []
SplitTags(tags) ==
  IF Truthy(tags) THEN MapTrim(Split(tags.v, ",")) ELSE <<>>

\* line 93: tags.length > 0 ? tags : null
TagsField(tags) ==
  IF Len(tags) > 0 THEN [t |-> "array", v |-> tags] ELSE Null

\* Array.prototype.find: the first element that matches, or undefined
Find(members, id) ==
  IF \E k \in 1..Len(members) : members[k].id = id
  THEN LET k == CHOOSE i \in 1..Len(members) :
                  /\ members[i].id = id
                  /\ \A j \in 1..(i - 1) : members[j].id # id
       IN [t |-> "object", id |-> members[k].id, name |-> members[k].name]
  ELSE Undefined

\* lines 78-80: data.assignedTo ? teamMembers.find(...) : undefined
FindAssignedTeamMember(assignedTo, members) ==
  IF assignedTo # "" THEN Find(members, assignedTo) ELSE Undefined

LowerLetters ==
  <<"a", "b", "c", "d", "e", "f", "g", "h", "i", "j", "k", "l", "m",
    "n", "o", "p", "q", "r", "s", "t", "u", "v", "w", "x", "y", "z">>
UpperLetters ==
  <<"A", "B", "C", "D", "E", "F", "G", "H", "I", "J", "K", "L", "M",
    "N", "O", "P", "Q", "R", "S", "T", "U", "V", "W", "X", "Y", "Z">>

UpperChar(c) ==
  IF \E k \in 1..26 : LowerLetters[k] = c
  THEN UpperLetters[CHOOSE k \in 1..26 : LowerLetters[k] = c]
  ELSE c

\* String.prototype.toUpperCase
ToUpperCase(s) == [k \in 1..Len(s) |-> UpperChar(s[k])]

\* String.prototype.substring(0, n)
Substring0(s, n) == SubSeq(s, 1, Min(n, Len(s)))

\* faulty variant of Initials: toUpperCase left out
InitialsNoUpper(name) == Substring0(name, 2)

\* line 97: name.substring(0, 2).toUpperCase()
Initials(name) == ToUpperCase(Substring0(name, 2))

\* lines 94-98
AssignedToField(member) ==
  IF member # Undefined
  THEN [t |-> "object", id |-> member.id, name |-> member.name,
        initials |-> Initials(member.name)]
  ELSE Undefined

\* faulty variant of ReminderTimeField: the raw time kept when disabled
ReminderTimeKept(enabled, reminderTime) == reminderTime

\* line 91: data.reminderEnabled ? data.reminderTime : null
ReminderTimeField(enabled, reminderTime) ==
  IF enabled THEN reminderTime ELSE Null

IsDigit(c) == \E k \in 1..10 : Digits[k] = c

RECURSIVE DigitPrefix(_)
DigitPrefix(s) ==
  IF s # <<>> /\ IsDigit(Head(s)) THEN <<Head(s)>> \o DigitPrefix(Tail(s))
  ELSE <<>>

\* parseInt(s, 10) of an unsigned numeric string: leading white space is
\* skipped, the leading digits are read, NaN when there are none
ParseInt10(s) ==
  LET ds == DigitPrefix(TrimStart(s))
  IN IF ds = <<>> THEN NaN ELSE Num(ToNumber(ds))

\* line 83: ...(task?.id ? { id: task.id } : {})
IdPart(tk) ==
  IF tk # Null /\ tk.id # "" THEN [id |-> tk.id] ELSE <<>>

\* lines 82-100: the object handed to onSubmit
Payload(data, tk, members) ==
  IdPart(tk) @@
  [ title        |-> data.title,
    description  |-> data.description,
    priority     |-> data.priority,
    status       |-> data.status,
    dueDate      |-> data.dueDate,
    dueTime      |-> data.dueTime,
    reminderSet  |-> data.reminderEnabled,
    reminderTime |-> ReminderTimeField(data.reminderEnabled, data.reminderTime),
    progress     |-> ParseInt10(data.progress),
    tags         |-> TagsField(SplitTags(data.tags)),
    assignedTo   |-> AssignedToField(
                       FindAssignedTeamMember(data.assignedTo, members)),
    teamId       |-> IF data.teamId # "" THEN data.teamId ELSE Undefined ]

\* ---- bounded inputs
MaxTagLen == 3
MaxMembers == 2
TagChars == {"a", ",", " "}

RECURSIVE StringsUpTo(_, _)
StringsUpTo(chars, n) ==
  IF n = 0 THEN {<<>>}
  ELSE LET shorter == StringsUpTo(chars, n - 1)
       IN shorter \cup {Append(s, c) : s \in shorter, c \in chars}

TagInputs == {Undefined} \cup {Str(s) : s \in StringsUpTo(TagChars, MaxTagLen)}

MemberPool ==
  { [id |-> "u1", name |-> <<"a", "l", "i">>],
    [id |-> "u2", name |-> <<"b">>],
    [id |-> "u1", name |-> <<>>] }

RECURSIVE ListsUpTo(_, _)
ListsUpTo(pool, n) ==
  IF n = 0 THEN {<<>>}
  ELSE LET shorter == ListsUpTo(pool, n - 1)
       IN shorter \cup {Append(l, m) : l \in shorter, m \in pool}

NineOClock == <<"0", "9", ":", "0", "0">>

\* the fields handleSubmit copies or parses without a branch on the others
OtherFields ==
  { [title |-> "New", description |-> "", priority |-> "medium",
     status |-> "pending", dueDate |-> Null, dueTime |-> "17:00",
     progress |-> <<"5", "0">>, teamId |-> ""],
    [title |-> "New", description |-> "notes", priority |-> "high",
     status |-> "in-progress", dueDate |-> Null, dueTime |-> "",
     progress |-> <<>>, teamId |-> "team1"] }

FormInputs ==
  { rest @@ branch :
      rest \in OtherFields,
      branch \in [ reminderEnabled : BOOLEAN,
                   reminderTime    : {Undefined, Str(NineOClock)},
                   tags            : TagInputs,
                   assignedTo      : {"", "u1", "u2", "u9"} ] }

Tasks == {Null, [id |-> "t1", title |-> "Old"], [id |-> "", title |-> "Draft"]}

SubmitInit ==
  /\ tz = 0
  /\ DatesIdle
  /\ ReminderIdle
  /\ StoreEmpty
  /\ LookupIdle
  /\ CreateIdle
  /\ DialogIdle
  /\ teamMembers \in ListsUpTo(MemberPool, MaxMembers)
  /\ task \in Tasks
  /\ open = TRUE
  /\ formData = Undefined
  /\ submitted = Undefined

\* lines 73-102: TaskForm is rendered, and can submit, only while open
HandleSubmit(data) ==
  /\ open
  /\ formData' = data
  /\ submitted' = Payload(data, task, teamMembers)
  /\ open' = FALSE                       \* onOpenChange(false)
  /\ UNCHANGED <<teamMembers, task>>
  /\ UNCHANGED notSubmitVars

\* handleSubmit reads the props and its argument only, nothing an earlier
\* submission left behind: one submission per behaviour covers them all
SubmitNext == \E data \in FormInputs : HandleSubmit(data)

SpecSubmit == SubmitInit /\ [][SubmitNext]_vars

HasSubmitted == submitted # Undefined

\* C1 (as claimed): the payload's tags are null or a non-empty sequence with
\* no empty-string entry
TagsNeverHoldEmptyPiece ==
  HasSubmitted =>
    \/ submitted.tags = Null
    \/ /\ submitted.tags.t = "array"
       /\ Len(submitted.tags.v) > 0
       /\ \A k \in 1..Len(submitted.tags.v) : submitted.tags.v[k] # <<>>

\* C2: with reminderEnabled false the payload's reminderTime is null whatever
\* the raw value; reminderSet equals reminderEnabled; with reminderEnabled
\* true the raw reminderTime is passed through
ReminderTimeOnlyWhenEnabled ==
  HasSubmitted =>
    /\ submitted.reminderSet = formData.reminderEnabled
    /\ ~formData.reminderEnabled => submitted.reminderTime = Null
    /\ formData.reminderEnabled => submitted.reminderTime = formData.reminderTime

DisabledReminderWithRawTime ==
  /\ HasSubmitted
  /\ ~formData.reminderEnabled
  /\ formData.reminderTime = Str(NineOClock)
  /\ submitted.reminderTime = Null

\* the members whose id is the form's assignedTo
Matches == {k \in 1..Len(teamMembers) : teamMembers[k].id = formData.assignedTo}

\* C3: assignedTo is present exactly when the form's identifier is non-empty
\* and is the id of a member; it then carries the (first such) member's id
\* and name and the upper-cased first two characters of the name
AssignedToResolved ==
  HasSubmitted =>
    /\ submitted.assignedTo # Undefined
         <=> (formData.assignedTo # "" /\ Matches # {})
    /\ submitted.assignedTo # Undefined =>
         LET m == teamMembers[CHOOSE k \in Matches : \A j \in Matches : k <= j]
             a == submitted.assignedTo
         IN /\ a.id = formData.assignedTo
            /\ a.name = m.name
            /\ Len(a.initials) = Min(2, Len(m.name))
            /\ \A k \in 1..Len(a.initials) :
                 a.initials[k] = UpperChar(m.name[k])

AssignedWithShortName ==
  /\ HasSubmitted
  /\ submitted.assignedTo # Undefined
  /\ submitted.assignedTo.name = <<"b">>
  /\ submitted.assignedTo.initials = <<"B">>

AssignedWithLongName ==
  /\ HasSubmitted
  /\ Cardinality(Matches) = 2
  /\ submitted.assignedTo # Undefined
  /\ submitted.assignedTo.name = <<"a", "l", "i">>
  /\ submitted.assignedTo.initials = <<"A", "L">>

(***************************************************************************)
(* scheduleTaskReminder                                                    *)
(***************************************************************************)
Chars3(a, b, c) == <<a, b, c>>

\* the three letters of each month abbreviation, as characters
MonthChars ==
  <<Chars3("J", "a", "n"), Chars3("F", "e", "b"), Chars3("M", "a", "r"),
    Chars3("A", "p", "r"), Chars3("M", "a", "y"), Chars3("J", "u", "n"),
    Chars3("J", "u", "l"), Chars3("A", "u", "g"), Chars3("S", "e", "p"),
    Chars3("O", "c", "t"), Chars3("N", "o", "v"), Chars3("D", "e", "c")>>

RECURSIVE Decimal(_)
\* a natural number in decimal, no padding
Decimal(n) ==
  IF n < 10 THEN <<Digits[n + 1]>>
  ELSE Append(Decimal(n \div 10), Digits[(n % 10) + 1])

\* date-fns format(d, 'PP'), en-US: "MMM d, y" of the local calendar fields
FormatPP(i, offset) ==
  LET c == LocalYMD(i, offset)
  IN MonthChars[c.month] \o <<" ">> \o Decimal(c.day) \o <<",", " ">>
       \o Decimal(c.year)

\* faulty variant of ShouldSchedule: the email conditions left out
ShouldScheduleOnFlagOnly(tk) == Truthy(tk.reminderSet)

\* line 151, negated: the call goes on to the invocation
ShouldSchedule(tk) ==
  /\ Truthy(tk.reminderSet)
  /\ Truthy(tk.emailNotification)
  /\ Truthy(tk.notificationEmail)

\* JSON.stringify of an object: a property whose value is undefined is left out
JsonStringify(obj) ==
  [k \in {f \in DOMAIN obj : obj[f] # Undefined} |-> obj[k]]

\* lines 157-163
ReminderBody(tk, offset) ==
  JsonStringify(
    [ taskId    |-> Str(tk.id),
      email     |-> tk.notificationEmail,
      taskTitle |-> Str(tk.title),
      dueDate   |-> IF Truthy(tk.dueDate)
                    THEN Str(FormatPP(tk.dueDate.v, offset)) ELSE Null,
      dueTime   |-> tk.dueTime ])

\* faulty variant of Thrown: the error logged and swallowed
ThrownSwallowed(reply) == Undefined

\* lines 166-172: `if (error) throw error`, caught, logged and thrown again
Thrown(reply) == IF reply # Null THEN reply ELSE Undefined

\* ---- bounded inputs
MaxReminderCalls == 2
Email == <<"a", "@", "b">>
FivePm == <<"1", "7", ":", "0", "0">>

ReminderDueDates(offset) ==
  { Null,
    DateVal(LocalInstant(2024, 2, 29, 9, offset)),
    DateVal(LocalInstant(2023, 12, 31, 23, offset)) }

ReminderTasks(offset) ==
  [ id                : {<<"t", "1">>},
    title             : {<<"P", "a", "y">>},
    dueDate           : ReminderDueDates(offset),
    dueTime           : {Undefined, Str(FivePm)},
    reminderSet       : {Undefined, Bool(FALSE), Bool(TRUE)},
    emailNotification : {Undefined, Bool(FALSE), Bool(TRUE)},
    notificationEmail : {Undefined, Str(<<>>), Str(Email)} ]

\* what supabase.functions.invoke resolves its `error` to
InvokeErrors == {Str(<<"5", "0", "0">>), Str(<<"n", "e", "t">>)}
InvokeReplies == {Null} \cup InvokeErrors

ReminderTz == {-5, 0, 9}

ReminderInit ==
  /\ tz \in ReminderTz
  /\ DatesIdle
  /\ SubmitIdle
  /\ ReminderIdle
  /\ StoreEmpty
  /\ LookupIdle
  /\ CreateIdle
  /\ DialogIdle

\* lines 149-164: up to the await of the invocation, or the early return
ScheduleTaskReminder(tk) ==
  /\ reminderPc # "awaiting"
  /\ reminderCalls < MaxReminderCalls
  /\ reminderCalls' = reminderCalls + 1
  /\ reminderTask' = tk
  /\ invokeReply' = Undefined
  /\ reminderThrown' = Undefined
  /\ IF ShouldSchedule(tk)
     THEN /\ invoked' = <<[fn |-> "send-reminder",
                           body |-> ReminderBody(tk, tz)]>>
          /\ reminderPc' = "awaiting"
     ELSE /\ invoked' = <<>>
          /\ reminderPc' = "resolved"
  /\ UNCHANGED <<tz, notReminderVars>>

\* lines 156-172: the invocation settles with {error}
InvokeSettles(reply) ==
  /\ reminderPc = "awaiting"
  /\ invokeReply' = reply
  /\ reminderThrown' = Thrown(reply)
  /\ reminderPc' = IF Thrown(reply) # Undefined THEN "rejected" ELSE "resolved"
  /\ UNCHANGED <<reminderTask, invoked, reminderCalls>>
  /\ UNCHANGED <<tz, notReminderVars>>

ReminderNext ==
  \/ \E tk \in ReminderTasks(tz) : ScheduleTaskReminder(tk)
  \/ \E reply \in InvokeReplies : InvokeSettles(reply)

SpecReminder == ReminderInit /\ [][ReminderNext]_vars

\* the three conditions of the claim, read off the task itself
AllThreeHold ==
  /\ reminderTask.reminderSet = Bool(TRUE)
  /\ reminderTask.emailNotification = Bool(TRUE)
  /\ reminderTask.notificationEmail.t = "string"
  /\ reminderTask.notificationEmail.v # <<>>

\* the display date of the body reads back as the local day of the due date
ShowsLocalDay(text, due) ==
  LET c == LocalYMD(due.v, tz)
      n == Len(text)
  IN /\ SubSeq(text, 1, 3) = MonthChars[c.month]
     /\ text[4] = " "
     /\ ToNumber(SubSeq(text, 5, n - 6)) = c.day
     /\ SubSeq(text, n - 5, n - 4) = <<",", " ">>
     /\ ToNumber(SubSeq(text, n - 3, n)) = c.year

\* C4: no remote invocation and a plain resolve whenever one of reminderSet,
\* emailNotification, notificationEmail is false or absent; with all three,
\* exactly one invocation of "send-reminder" carrying taskId, email,
\* taskTitle, dueDate (display date or null) and dueTime
InvokesOnlyWhenAllThreeHold ==
  reminderPc # "idle" =>
    IF ~AllThreeHold
    THEN invoked = <<>> /\ reminderPc = "resolved" /\ reminderThrown = Undefined
    ELSE /\ Len(invoked) = 1
         /\ invoked[1].fn = "send-reminder"
         /\ LET body == invoked[1].body
            IN /\ body.taskId = Str(reminderTask.id)
               /\ body.email = reminderTask.notificationEmail
               /\ body.taskTitle = Str(reminderTask.title)
               /\ IF reminderTask.dueDate = Null THEN body.dueDate = Null
                  ELSE /\ body.dueDate.t = "string"
                       /\ ShowsLocalDay(body.dueDate.v, reminderTask.dueDate)
               /\ IF reminderTask.dueTime = Undefined
                  THEN "dueTime" \notin DOMAIN body
                  ELSE body.dueTime = reminderTask.dueTime

SkippedForMissingEmail ==
  /\ reminderPc = "resolved"
  /\ reminderTask.reminderSet = Bool(TRUE)
  /\ reminderTask.emailNotification = Bool(TRUE)
  /\ reminderTask.notificationEmail = Str(<<>>)
  /\ invoked = <<>>

InvokedWithDisplayDate ==
  /\ reminderPc = "awaiting"
  /\ Len(invoked) = 1
  /\ invoked[1].body.dueDate =
       Str(<<"F", "e", "b", " ", "2", "9", ",", " ", "2", "0", "2", "4">>)

\* C8: with all three conditions, an error reported by the invocation is
\* the error the call rejects with; the call resolves only when no error was
\* reported; the invocation is made once, never retried
InvocationErrorPropagates ==
  (reminderPc \in {"resolved", "rejected"} /\ AllThreeHold) =>
    /\ Len(invoked) = 1
    /\ invokeReply \in InvokeErrors =>
         reminderPc = "rejected" /\ reminderThrown = invokeReply
    /\ reminderPc = "resolved" =>
         invokeReply = Null /\ reminderThrown = Undefined

RejectedWithInvokeError ==
  /\ reminderPc = "rejected"
  /\ AllThreeHold
  /\ invokeReply \in InvokeErrors
  /\ reminderThrown = invokeReply

(***************************************************************************)
(* The backend store and its query interface (supabase-js / PostgREST)     *)
(***************************************************************************)
Err(code) == [t |-> "error", code |-> code]

\* how a request can end: served, or failed with one of these error codes
Outcomes == {"ok", "42501", "fetch failed"}

\* the {data, error} a request resolves to: the rows and a null error when
\* it is served, null data and the error when it is not
Ok(rows) == [data |-> rows, error |-> Null]
Fail(e) == [data |-> Null, error |-> e]

Failed(reply) == reply.error # Null

\* the reply to a request that selects `rows` when it is served
Reply(outcome, rows) ==
  IF outcome = "ok" THEN Ok(rows) ELSE Fail(Err(outcome))

\* .select(cols): the named columns of each row
Project(rows, cols) ==
  [k \in 1..Len(rows) |-> [c \in cols |-> rows[k][c]]]

\* .eq(col, value)
WhereEq(table, col, value) == SelectSeq(table, LAMBDA r : r[col] = value)

\* .in(col, values)
WhereIn(table, col, values) == SelectSeq(table, LAMBDA r : r[col] \in values)

\* Array.prototype.map(row => row[col]), as the set .in() receives
Column(rows, col) == {rows[k][col] : k \in 1..Len(rows)}

TeamAlpha ==
  [id |-> "tA", name |-> "Alpha", description |-> Null,
   created_by |-> "u1", created_at |-> "2024-01-01"]
TeamBeta ==
  [id |-> "tB", name |-> "Beta", description |-> Str(<<"b">>),
   created_by |-> "u2", created_at |-> "2024-01-02"]

Member(id, team, usr, role) ==
  [id |-> id, team_id |-> team, user_id |-> usr, role |-> role,
   joined_at |-> "2024-01-03"]

ProfileAnn ==
  [id |-> "u1", first_name |-> Str(<<"A", "n", "n">>), last_name |-> Str(<<>>),
   avatar_url |-> Null]
ProfileBob ==
  [id |-> "u2", first_name |-> Str(<<"B", "o", "b">>),
   last_name |-> Str(<<"R", "a", "y">>), avatar_url |-> Str(<<"/", "b">>)]

\* the stores the lookups run against; a referenced team or profile may be
\* missing (no foreign key is assumed)
Stores ==
  [ teams : {<<TeamAlpha, TeamBeta>>, <<TeamBeta>>},
    team_members :
      { <<>>,
        <<Member("m1", "tA", "u1", "admin")>>,
        <<Member("m2", "tA", "u2", "member"), Member("m3", "tB", "u1", "member")>>,
        <<Member("m1", "tA", "u1", "admin"), Member("m2", "tA", "u2", "member"),
          Member("m3", "tB", "u1", "member"), Member("m4", "tB", "u2", "admin")>> },
    profiles : {<<>>, <<ProfileAnn>>, <<ProfileBob, ProfileAnn>>} ]

Users == {"u1", "u2", "u3"}
TeamIds == {"tA", "tB", "tC"}

(***************************************************************************)
(* getTeams                                                                *)
(***************************************************************************)
\* faulty variant of GetTeamsCatch: the error thrown again, as createTeam does
GetTeamsCatchRethrows(frame, error) ==
  [frame EXCEPT !.pc = "rejected", !.thrown = error]

\* lines 111-114: catch, log, return []
GetTeamsCatch(frame, error) ==
  [frame EXCEPT !.pc = "resolved", !.result = <<>>]

\* lines 88-93: the call up to the await of the membership query
GetTeams(userId) ==
  /\ getTeamsCall.pc \in {"idle", "resolved", "rejected"}
  /\ getTeamsCall' =
       [ pc |-> "awaitMembership", userId |-> userId,
         queries |-> <<[table |-> "team_members", col |-> "user_id",
                        values |-> {userId}]>>,
         membershipReply |-> Undefined, teamsReply |-> Undefined,
         result |-> Undefined, thrown |-> Undefined ]
  /\ UNCHANGED getTeamMembersCall
  /\ UNCHANGED notLookupVars

\* lines 95-106: the membership query settles; throw, return [] or go on to
\* the team query
GetTeamsAfterMembership(frame, reply) ==
  LET f == [frame EXCEPT !.membershipReply = reply]
  IN IF reply.error # Null THEN GetTeamsCatch(f, reply.error)
     ELSE IF Len(reply.data) = 0
          THEN [f EXCEPT !.pc = "resolved", !.result = <<>>]
          ELSE [f EXCEPT !.pc = "awaitTeams",
                         !.queries = Append(@,
                           [table |-> "teams", col |-> "id",
                            values |-> Column(reply.data, "team_id")])]

\* the rows the store serves to the queries of getTeams
MembershipRows(userId) ==
  Project(WhereEq(dbTeamMembers, "user_id", userId), {"team_id"})

TeamRows(ids) == WhereIn(dbTeams, "id", ids)

MembershipQuerySettles ==
  /\ getTeamsCall.pc = "awaitMembership"
  /\ \E outcome \in Outcomes :
       getTeamsCall' =
         GetTeamsAfterMembership(getTeamsCall,
           Reply(outcome, MembershipRows(getTeamsCall.userId)))
  /\ UNCHANGED getTeamMembersCall
  /\ UNCHANGED notLookupVars

\* lines 108-110: the team query settles; throw or return the rows
GetTeamsAfterTeams(frame, reply) ==
  LET f == [frame EXCEPT !.teamsReply = reply]
  IN IF reply.error # Null THEN GetTeamsCatch(f, reply.error)
     ELSE [f EXCEPT !.pc = "resolved", !.result = reply.data]

TeamQuerySettles ==
  /\ getTeamsCall.pc = "awaitTeams"
  /\ \E outcome \in Outcomes :
       getTeamsCall' =
         GetTeamsAfterTeams(getTeamsCall,
           Reply(outcome, TeamRows(getTeamsCall.queries[2].values)))
  /\ UNCHANGED getTeamMembersCall
  /\ UNCHANGED notLookupVars

(***************************************************************************)
(* getTeamMembers                                                          *)
(***************************************************************************)
\* a || null
OrNull(x) == IF Truthy(x) THEN x ELSE Null

\* profilesData?.find(p => p.id === member.user_id)
FindProfile(profilesData, userId) ==
  IF \E k \in 1..Len(profilesData) : profilesData[k].id = userId
  THEN LET k == CHOOSE i \in 1..Len(profilesData) :
                  /\ profilesData[i].id = userId
                  /\ \A j \in 1..(i - 1) : profilesData[j].id # userId
       IN profilesData[k]
  ELSE Undefined

\* lines 67-79: one membership row merged with its profile
MergeProfile(member, profilesData) ==
  LET profile == FindProfile(profilesData, member.user_id)
  IN [ id |-> member.id, team_id |-> member.team_id,
       user_id |-> member.user_id, role |-> member.role,
       joined_at |-> member.joined_at,
       profile |->
         IF profile = Undefined
         THEN [first_name |-> Null, last_name |-> Null, avatar_url |-> Null]
         ELSE [first_name |-> OrNull(profile.first_name),
               last_name  |-> OrNull(profile.last_name),
               avatar_url |-> OrNull(profile.avatar_url)] ]

\* faulty variant of MergeMembers: an inner join, members without profile lost
MergeOnlyWithProfile(memberData, profilesData) ==
  LET kept == SelectSeq(memberData,
                LAMBDA m : FindProfile(profilesData, m.user_id) # Undefined)
  IN [k \in 1..Len(kept) |-> MergeProfile(kept[k], profilesData)]

\* lines 66-80: memberData.map(...)
MergeMembers(memberData, profilesData) ==
  [k \in 1..Len(memberData) |-> MergeProfile(memberData[k], profilesData)]

\* lines 81-84: catch, log, return []
GetTeamMembersCatch(frame, error) ==
  [frame EXCEPT !.pc = "resolved", !.result = <<>>]

\* lines 43-48: the call up to the await of the membership query
GetTeamMembers(teamId) ==
  /\ getTeamMembersCall.pc \in {"idle", "resolved"}
  /\ getTeamMembersCall' =
       [ pc |-> "awaitMembers", teamId |-> teamId,
         memberReply |-> Undefined, profilesReply |-> Undefined,
         result |-> Undefined ]
  /\ UNCHANGED getTeamsCall
  /\ UNCHANGED notLookupVars

\* lines 50-61
GetTeamMembersAfterMembers(frame, reply) ==
  LET f == [frame EXCEPT !.memberReply = reply]
  IN IF reply.error # Null THEN GetTeamMembersCatch(f, reply.error)
     ELSE IF Len(reply.data) = 0
          THEN [f EXCEPT !.pc = "resolved", !.result = <<>>]
          ELSE [f EXCEPT !.pc = "awaitProfiles"]

\* the rows the store serves to the queries of getTeamMembers
MemberRows(teamId) == WhereEq(dbTeamMembers, "team_id", teamId)

ProfileRows(userIds) == WhereIn(dbProfiles, "id", userIds)

MemberQuerySettles ==
  /\ getTeamMembersCall.pc = "awaitMembers"
  /\ \E outcome \in Outcomes :
       getTeamMembersCall' =
         GetTeamMembersAfterMembers(getTeamMembersCall,
           Reply(outcome, MemberRows(getTeamMembersCall.teamId)))
  /\ UNCHANGED getTeamsCall
  /\ UNCHANGED notLookupVars

\* lines 63-80
GetTeamMembersAfterProfiles(frame, reply) ==
  LET f == [frame EXCEPT !.profilesReply = reply]
  IN IF reply.error # Null THEN GetTeamMembersCatch(f, reply.error)
     ELSE [f EXCEPT !.pc = "resolved",
                    !.result = MergeMembers(f.memberReply.data, reply.data)]

ProfileQuerySettles ==
  /\ getTeamMembersCall.pc = "awaitProfiles"
  /\ \E outcome \in Outcomes :
       getTeamMembersCall' =
         GetTeamMembersAfterProfiles(getTeamMembersCall,
           Reply(outcome,
             ProfileRows(Column(getTeamMembersCall.memberReply.data,
                                "user_id"))))
  /\ UNCHANGED getTeamsCall
  /\ UNCHANGED notLookupVars

LookupInit ==
  /\ tz = 0
  /\ DatesIdle
  /\ SubmitIdle
  /\ ReminderIdle
  /\ \E store \in Stores :
       /\ dbTeams = store.teams
       /\ dbTeamMembers = store.team_members
       /\ dbProfiles = store.profiles
  /\ LookupIdle
  /\ CreateIdle
  /\ DialogIdle

LookupNext ==
  \/ \E userId \in Users : GetTeams(userId)
  \/ MembershipQuerySettles
  \/ TeamQuerySettles
  \/ \E teamId \in TeamIds : GetTeamMembers(teamId)
  \/ MemberQuerySettles
  \/ ProfileQuerySettles

SpecLookup == LookupInit /\ [][LookupNext]_vars

\* C5: getTeams never rejects; it resolves to the empty sequence when the
\* user has no membership rows and when either query fails; the team query
\* is issued only after the membership query returned at least one row, and
\* the result is then exactly the team rows returned for those ids
GetTeamsNeverRejects ==
  LET c == getTeamsCall
  IN c.pc # "idle" =>
       /\ c.pc # "rejected"
       /\ c.thrown = Undefined
       /\ Len(c.queries) = 2 =>
            /\ c.membershipReply # Undefined
            /\ ~Failed(c.membershipReply)
            /\ Len(c.membershipReply.data) >= 1
            /\ c.queries[2].table = "teams"
            /\ c.queries[2].values =
                 {m.team_id : m \in {dbTeamMembers[k] : k \in
                    {i \in 1..Len(dbTeamMembers) :
                       dbTeamMembers[i].user_id = c.userId}}}
       /\ c.pc = "resolved" =>
            IF Failed(c.membershipReply) THEN c.result = <<>>
            ELSE IF Len(c.membershipReply.data) = 0
                 THEN c.result = <<>> /\ Len(c.queries) = 1
            ELSE IF Failed(c.teamsReply) THEN c.result = <<>>
            ELSE /\ c.result = c.teamsReply.data
                 /\ \A k \in 1..Len(c.result) :
                      c.result[k].id \in c.queries[2].values
                 /\ \A i \in 1..Len(dbTeams) :
                      dbTeams[i].id \in c.queries[2].values =>
                        \E k \in 1..Len(c.result) : c.result[k] = dbTeams[i]

TeamQueryFailureSwallowed ==
  /\ getTeamsCall.pc = "resolved"
  /\ Len(getTeamsCall.queries) = 2
  /\ Failed(getTeamsCall.teamsReply)
  /\ getTeamsCall.result = <<>>

TeamsOfTheUserReturned ==
  /\ getTeamsCall.pc = "resolved"
  /\ getTeamsCall.userId = "u1"
  /\ getTeamsCall.result = <<TeamAlpha, TeamBeta>>

\* the entry of the result built from membership row m
EntryOf(entry, m) ==
  /\ entry.id = m.id
  /\ entry.user_id = m.user_id
  /\ entry.role = m.role
  /\ entry.joined_at = m.joined_at

NoProfile(entry) ==
  /\ entry.profile.first_name = Null
  /\ entry.profile.last_name = Null
  /\ entry.profile.avatar_url = Null

\* every membership row returned has its one entry, in order; an entry whose
\* user has no profile row among `profiles` has null profile fields
EveryMemberKept(rows, profiles, result) ==
  /\ Len(result) = Len(rows)
  /\ \A k \in 1..Len(rows) :
       /\ EntryOf(result[k], rows[k])
       /\ (\A j \in 1..Len(profiles) : profiles[j].id # rows[k].user_id)
            => NoProfile(result[k])

\* C6 (as claimed): for every membership row returned for the team the result
\* holds exactly one entry with its id, user_id, role and joined_at, in the
\* same order; an entry without a matching profile row has null profile
\* fields
NoMemberEverDropped ==
  LET c == getTeamMembersCall
  IN (c.pc = "resolved" /\ ~Failed(c.memberReply)) =>
       EveryMemberKept(c.memberReply.data,
                       IF c.profilesReply = Undefined \/ Failed(c.profilesReply)
                       THEN <<>> ELSE c.profilesReply.data,
                       c.result)

\* C6 (amended): the same, whenever the profile query did not fail; when it
\* failed the result is the empty sequence
NoMemberDroppedUnlessProfileQueryFails ==
  LET c == getTeamMembersCall
  IN (c.pc = "resolved" /\ ~Failed(c.memberReply)) =>
       IF c.profilesReply = Undefined
       THEN c.memberReply.data = <<>> /\ c.result = <<>>
       ELSE IF Failed(c.profilesReply) THEN c.result = <<>>
       ELSE EveryMemberKept(c.memberReply.data, c.profilesReply.data, c.result)

MemberWithoutProfileKept ==
  LET c == getTeamMembersCall
  IN /\ c.pc = "resolved"
     /\ c.profilesReply # Undefined
     /\ ~Failed(c.profilesReply)
     /\ Len(c.result) = 2
     /\ ~NoProfile(c.result[1])
     /\ NoProfile(c.result[2])
     /\ \A j \in 1..Len(dbProfiles) : dbProfiles[j].id # c.result[2].user_id

(***************************************************************************)
(* createTeam                                                              *)
(***************************************************************************)
MaxCreateCalls == 2

\* ids the store gives to inserted rows
NewTeamIds == <<"n1", "n2", "n3", "n4", "n5">>
NewMemberIds == <<"k1", "k2", "k3", "k4", "k5">>

CreateTeamParams ==
  [ name : {"Gamma"},
    description : {Undefined, Str(<<>>), Str(<<"d">>)},
    created_by : {"u1", "u2"} ]

\* lines 121-125: the row sent to `teams`; the store adds id and created_at
TeamRow(params, id) ==
  [ id |-> id, name |-> params.name,
    description |-> OrNull(params.description),
    created_by |-> params.created_by, created_at |-> "2024-02-01" ]

\* lines 134-138: the row sent to `team_members`; role is 'admin'
AdminRow(frame, id) ==
  [ id |-> id, team_id |-> frame.data.id,
    user_id |-> frame.params.created_by, role |-> "admin",
    joined_at |-> "2024-02-01" ]

\* lines 143-146: catch, log, throw again
CreateTeamCatch(frame, error) ==
  [frame EXCEPT !.pc = "rejected", !.thrown = error]

\* lines 118-127: the call up to the await of the team insert
CreateTeam(params) ==
  /\ Len(createTeamCalls) < MaxCreateCalls
  /\ createTeamCalls' =
       Append(createTeamCalls,
         [ pc |-> "awaitTeamInsert", params |-> params,
           inserts |-> <<"teams">>, data |-> Undefined,
           teamReply |-> Undefined, memberReply |-> Undefined,
           thrown |-> Undefined, result |-> Undefined ])
  /\ UNCHANGED storeVars
  /\ UNCHANGED notCreateVars

\* lines 129-138: the team insert settled; throw, or send the membership row
CreateTeamAfterTeamInsert(frame, reply) ==
  LET f == [frame EXCEPT !.teamReply = reply]
  IN IF Failed(reply) THEN CreateTeamCatch(f, reply.error)
     ELSE [f EXCEPT !.pc = "awaitMemberInsert", !.data = reply.data,
                    !.inserts = Append(@, "team_members")]

\* the store serves or refuses the insert into `teams`; a refused insert
\* leaves the table as it was
TeamInsertSettles(i) ==
  /\ createTeamCalls[i].pc = "awaitTeamInsert"
  /\ \E outcome \in Outcomes :
       LET row == TeamRow(createTeamCalls[i].params,
                          NewTeamIds[Len(dbTeams) + 1])
       IN /\ dbTeams' = IF outcome = "ok" THEN Append(dbTeams, row) ELSE dbTeams
          /\ createTeamCalls' =
               [createTeamCalls EXCEPT
                  ![i] = CreateTeamAfterTeamInsert(@, Reply(outcome, row))]
  /\ UNCHANGED <<dbTeamMembers, dbProfiles>>
  /\ UNCHANGED notCreateVars

\* faulty variant of CreateTeamAfterMemberInsert: memberError not looked at
CreateTeamResolvesAnyway(frame, reply) ==
  [frame EXCEPT !.memberReply = reply, !.pc = "resolved",
                !.result = frame.data]

\* lines 140-142: the membership insert settled; throw, or return the team
CreateTeamAfterMemberInsert(frame, reply) ==
  LET f == [frame EXCEPT !.memberReply = reply]
  IN IF Failed(reply) THEN CreateTeamCatch(f, reply.error)
     ELSE [f EXCEPT !.pc = "resolved", !.result = f.data]

\* the store serves or refuses the insert into `team_members`
MemberInsertSettles(i) ==
  /\ createTeamCalls[i].pc = "awaitMemberInsert"
  /\ \E outcome \in Outcomes :
       LET row == AdminRow(createTeamCalls[i],
                           NewMemberIds[Len(dbTeamMembers) + 1])
       IN /\ dbTeamMembers' =
               IF outcome = "ok" THEN Append(dbTeamMembers, row)
               ELSE dbTeamMembers
          /\ createTeamCalls' =
               [createTeamCalls EXCEPT
                  ![i] = CreateTeamAfterMemberInsert(@, Reply(outcome, <<>>))]
  /\ UNCHANGED <<dbTeams, dbProfiles>>
  /\ UNCHANGED notCreateVars

\* the store before the calls: empty, or one team with its admin
CreateInit ==
  /\ tz = 0
  /\ DatesIdle
  /\ SubmitIdle
  /\ ReminderIdle
  /\ LookupIdle
  /\ DialogIdle
  /\ CreateIdle
  /\ dbProfiles = <<>>
  /\ \/ dbTeams = <<>> /\ dbTeamMembers = <<>>
     \/ /\ dbTeams = <<TeamAlpha>>
        /\ dbTeamMembers = <<Member("m1", "tA", "u1", "admin")>>

CreateNext ==
  \/ \E params \in CreateTeamParams : CreateTeam(params)
  \/ \E i \in 1..Len(createTeamCalls) : TeamInsertSettles(i)
  \/ \E i \in 1..Len(createTeamCalls) : MemberInsertSettles(i)

SpecCreate == CreateInit /\ [][CreateNext]_vars

InTable(table, row) == \E k \in 1..Len(table) : table[k] = row

\* the team has a membership row that makes its creator an admin
HasAdmin(team) ==
  \E k \in 1..Len(dbTeamMembers) :
    /\ dbTeamMembers[k].team_id = team.id
    /\ dbTeamMembers[k].user_id = team.created_by
    /\ dbTeamMembers[k].role = "admin"

HasMembers(team) ==
  \E k \in 1..Len(dbTeamMembers) : dbTeamMembers[k].team_id = team.id

\* the call whose membership insert for `team` failed
MemberInsertFailedFor(team) ==
  \E i \in 1..Len(createTeamCalls) :
    /\ createTeamCalls[i].data # Undefined
    /\ createTeamCalls[i].data.id = team.id
    /\ createTeamCalls[i].memberReply # Undefined
    /\ Failed(createTeamCalls[i].memberReply)

\* a call that has inserted `team` and has not completed its membership
\* insert: it is suspended at the await of line 132
BetweenInsertsFor(team) ==
  \E i \in 1..Len(createTeamCalls) :
    /\ createTeamCalls[i].pc = "awaitMemberInsert"
    /\ createTeamCalls[i].data.id = team.id

\* order of the inserts, outcome of the call, and the orphaned team row
CreateTeamSteps(f) ==
  /\ f.inserts[1] = "teams"
  /\ Len(f.inserts) = 2 =>
       /\ f.inserts[2] = "team_members"
       /\ ~Failed(f.teamReply)
       /\ InTable(dbTeams, f.data)
       /\ f.data.created_by = f.params.created_by
  /\ (f.teamReply # Undefined /\ Failed(f.teamReply)) =>
       /\ Len(f.inserts) = 1
       /\ f.pc = "rejected"
       /\ f.thrown = f.teamReply.error
  /\ f.pc = "resolved" =>
       /\ ~Failed(f.teamReply)
       /\ f.memberReply # Undefined
       /\ ~Failed(f.memberReply)
       /\ f.result = f.data
       /\ HasAdmin(f.data)
  /\ (f.memberReply # Undefined /\ Failed(f.memberReply)) =>
       /\ f.pc = "rejected"
       /\ f.thrown = f.memberReply.error
       /\ InTable(dbTeams, f.data)
       /\ ~HasMembers(f.data)
  /\ f.pc = "rejected" =>
       \/ Failed(f.teamReply)
       \/ f.memberReply # Undefined /\ Failed(f.memberReply)

\* C7 (as claimed): the steps of createTeam, and a team without admin
\* membership exists only through a failed membership insert
TeamWithoutAdminOnlyByFailure ==
  /\ \A i \in 1..Len(createTeamCalls) : CreateTeamSteps(createTeamCalls[i])
  /\ \A k \in 1..Len(dbTeams) :
       ~HasAdmin(dbTeams[k]) => MemberInsertFailedFor(dbTeams[k])

\* C7 (amended): the steps of createTeam, and a team without admin
\* membership exists only through a failed membership insert or through a
\* call that has inserted the team and not yet completed its membership
\* insert
TeamWithoutAdminOnlyInFlightOrByFailure ==
  /\ \A i \in 1..Len(createTeamCalls) : CreateTeamSteps(createTeamCalls[i])
  /\ \A k \in 1..Len(dbTeams) :
       ~HasAdmin(dbTeams[k]) =>
         \/ MemberInsertFailedFor(dbTeams[k])
         \/ BetweenInsertsFor(dbTeams[k])

OrphanedTeamAfterFailedMemberInsert ==
  \E i \in 1..Len(createTeamCalls) :
    /\ createTeamCalls[i].pc = "rejected"
    /\ createTeamCalls[i].memberReply # Undefined
    /\ Failed(createTeamCalls[i].memberReply)
    /\ InTable(dbTeams, createTeamCalls[i].data)
    /\ ~HasMembers(createTeamCalls[i].data)
    /\ \E j \in 1..Len(createTeamCalls) : createTeamCalls[j].pc = "resolved"

(***************************************************************************)
(* TaskEditDialog: the effect on [open, user] and fetchUserTeams           *)
(***************************************************************************)
MaxFetchRuns == 2

DialogUsers == {"u1", "u2"}
UserValues == {Null} \cup {[t |-> "object", id |-> u] : u \in DialogUsers}

\* lines 43-49: a run of fetchUserTeams up to the await of the membership
\* query; user?.id is the user of the render the effect ran in
StartRun(u) ==
  [ pc |-> "awaitMembership", userId |-> u.id,
    membershipReply |-> Undefined, teamsReply |-> Undefined,
    set |-> Undefined ]

\* lines 37-41: the effect, run after a render in which open or user changed
Effect(isOpen, u) ==
  IF isOpen /\ u # Null THEN Append(fetchRuns, StartRun(u)) ELSE fetchRuns

\* the effect may start a run only while the bound on runs allows one
RunAllowed(isOpen, u) == (isOpen /\ u # Null) => Len(fetchRuns) < MaxFetchRuns

\* the parent flips the `open` prop
SetOpen ==
  /\ RunAllowed(~open, user)
  /\ open' = ~open
  /\ fetchRuns' = Effect(~open, user)
  /\ UNCHANGED <<user, teams>>
  /\ UNCHANGED notDialogVars

\* useAuth() yields another user: sign-in, sign-out, switch of account
SetUser(u) ==
  /\ u # user
  /\ RunAllowed(open, u)
  /\ user' = u
  /\ fetchRuns' = Effect(open, u)
  /\ UNCHANGED <<open, teams>>
  /\ UNCHANGED notDialogVars

\* faulty variant of TeamsAfterCatch: setTeams([]) in the catch
TeamsResetOnCatch(current) == <<>>

\* lines 68-70: catch, log; the state is not touched
TeamsAfterCatch(current) == current

\* lines 51-67 after the membership query settled: [frame, teams]
FetchAfterMembership(frame, reply, current) ==
  LET f == [frame EXCEPT !.membershipReply = reply]
  IN IF Failed(reply)
     THEN <<[f EXCEPT !.pc = "failed"], TeamsAfterCatch(current)>>
     ELSE IF Len(reply.data) > 0
          THEN <<[f EXCEPT !.pc = "awaitTeams"], current>>
          ELSE <<[f EXCEPT !.pc = "done", !.set = <<>>], <<>>>>

MembershipFetched(r) ==
  /\ fetchRuns[r].pc = "awaitMembership"
  /\ \E outcome \in Outcomes :
       LET next == FetchAfterMembership(fetchRuns[r],
                     Reply(outcome, MembershipRows(fetchRuns[r].userId)), teams)
       IN /\ fetchRuns' = [fetchRuns EXCEPT ![r] = next[1]]
          /\ teams' = next[2]
  /\ UNCHANGED <<open, user>>
  /\ UNCHANGED notDialogVars

\* lines 62-64 after the team query settled: [frame, teams]
FetchAfterTeams(frame, reply, current) ==
  LET f == [frame EXCEPT !.teamsReply = reply]
  IN IF Failed(reply)
     THEN <<[f EXCEPT !.pc = "failed"], TeamsAfterCatch(current)>>
     ELSE <<[f EXCEPT !.pc = "done", !.set = reply.data], reply.data>>

TeamsFetched(r) ==
  /\ fetchRuns[r].pc = "awaitTeams"
  /\ \E outcome \in Outcomes :
       LET ids  == Column(fetchRuns[r].membershipReply.data, "team_id")
           rows == Project(TeamRows(ids), {"id", "name"})
           next == FetchAfterTeams(fetchRuns[r], Reply(outcome, rows), teams)
       IN /\ fetchRuns' = [fetchRuns EXCEPT ![r] = next[1]]
          /\ teams' = next[2]
  /\ UNCHANGED <<open, user>>
  /\ UNCHANGED notDialogVars

DialogInit ==
  /\ tz = 0
  /\ DatesIdle
  /\ SubmitIdle
  /\ ReminderIdle
  /\ LookupIdle
  /\ CreateIdle
  /\ DialogIdle
  /\ \E store \in Stores :
       /\ store.profiles = <<>>
       /\ dbTeams = store.teams
       /\ dbTeamMembers = store.team_members
       /\ dbProfiles = store.profiles

DialogNext ==
  \/ SetOpen
  \/ \E u \in UserValues : SetUser(u)
  \/ \E r \in 1..Len(fetchRuns) : MembershipFetched(r)
  \/ \E r \in 1..Len(fetchRuns) : TeamsFetched(r)

SpecDialog == DialogInit /\ [][DialogNext]_vars

\* the team options of user u in the store: {id, name} of the teams u is a
\* member of
TeamOptionsOf(u) ==
  LET mine == {dbTeamMembers[k].team_id : k \in
                 {i \in 1..Len(dbTeamMembers) : dbTeamMembers[i].user_id = u}}
      rows == SelectSeq(dbTeams, LAMBDA row : row.id \in mine)
  IN [k \in 1..Len(rows) |-> [id |-> rows[k].id, name |-> rows[k].name]]

Completes(r) == fetchRuns[r].pc # "done" /\ fetchRuns'[r].pc = "done"
Fails(r) == fetchRuns[r].pc # "failed" /\ fetchRuns'[r].pc = "failed"

\* C10: `teams` changes only in the step in which a run completes without
\* error, to that run's result (empty for a user without memberships); a run
\* that fails leaves it as it was; so with overlapping runs the list holds
\* the result of the run that resolved last
TeamsSetOnlyByCompletedRun ==
  [][ /\ teams' # teams =>
           \E r \in 1..Len(fetchRuns) : Completes(r)
      /\ \A r \in 1..Len(fetchRuns) :
           /\ Fails(r) => teams' = teams
           /\ Completes(r) =>
                /\ teams' = TeamOptionsOf(fetchRuns[r].userId)
                /\ fetchRuns'[r].set = teams'
           /\ (~Fails(r) /\ ~Completes(r)) =>
                fetchRuns'[r].pc \in {fetchRuns[r].pc, "awaitTeams"}
    ]_vars

\* two runs overlapped and the one started first resolved last: the list
\* holds its result, not that of the run started last
FirstStartedResolvedLast ==
  /\ Len(fetchRuns) = 2
  /\ fetchRuns[1].pc = "done"
  /\ fetchRuns[2].pc = "done"
  /\ fetchRuns[1].set # fetchRuns[2].set
  /\ teams = fetchRuns[1].set
  /\ user # Null
  /\ user.id = fetchRuns[2].userId

\* a failed run left the list of an earlier run in place
FailedRunLeftTeams ==
  /\ Len(fetchRuns) = 2
  /\ fetchRuns[1].pc = "done"
  /\ fetchRuns[2].pc = "failed"
  /\ teams # <<>>

====
